---- MODULE Spec2Model ----
(***************************************************************************)
(* Model of the metric collector: the in-memory counter table, the input   *)
(* listeners that increment it, the periodic flush thread, the shutdown    *)
(* flush on the escape key, and the durable key_presses table.             *)
(*                                                                         *)
(* Two near-identical implementations exist: src/metric-collector.py       *)
(* (impl = "mc") and src/input-tracker.py (impl = "it").                    *)
(***************************************************************************)
EXTENDS Integers, Sequences, FiniteSets, TLC

VARIABLES
    impl,         \* which of the two implementations is running
    store0,       \* history: the durable rows the run started from
    procState,    \* "running", "exited" (os._exit) or "aborted" (startup raised)
    exitCode,     \* "0" from os._exit(0), "1" from an uncaught startup error, else NoCode
    mainPc,       \* position of main(): setup, init, load, print_prev, start, listening
    tableExists,  \* durable: the key_presses table has been created
    store,        \* durable rows: input_name -> [press_count, last_updated]
    dbConn,       \* db.conn: id of a connection object, or None
    dbCur,        \* db.cur: a cursor object [conn, closed], or NoCursor
    conns,        \* reachable connection objects: id -> [open, pending]
    counts,       \* metrics.input_counts
    lastUpdated,  \* metrics.last_updated
    now,          \* wall clock in seconds
    flushes,      \* periodic ticks taken so far
    pc,           \* position of the threads sched, key and mouse
    idx,          \* position of each flush's iteration over input_counts.items()
    diag,         \* number of 'Unknown key' lines printed
    summary,      \* last printed Metrics.__str__ summary
    report,       \* last printed "Current Input Counts" rows
    env,          \* input source: its mode and the number of events delivered
    merged,       \* history: input_counts right after the startup merge
    hist,         \* history: per identifier, received events that name it
    wrote,        \* history: per flush, the (identifier, count) pairs it executed
    cand,         \* history: per flush, tables since its start that agree with wrote
    flog          \* history: the periodic flush completed since the last input event

vars == <<impl, store0, procState, exitCode, mainPc, tableExists, store, dbConn, dbCur,
          conns, counts, lastUpdated, now, flushes, pc, idx, diag, summary,
          report, env, merged, hist, wrote, cand, flog>>

----------------------------------------------------------------------------
(* Bounds of the model *)

\* events the input source delivers in one run (free mode)
MaxEvents == 1
\* periodic ticks of the flush thread in one run
MaxFlushes == 1

----------------------------------------------------------------------------
(* Input vocabulary: one regular key, one special key, the mouse buttons.  *)

SPECIAL_KEYS == {"esc"}
REGULAR_KEYS == {"a"}
MOUSE_BUTTONS == {"mouse_left", "mouse_right", "mouse_middle"}
ALL_INPUTS == (SPECIAL_KEYS \cup REGULAR_KEYS) \cup MOUSE_BUTTONS

\* An input_name outside ALL_INPUTS that an older store may hold.
LegacyNames == {"A"}
Names == ALL_INPUTS \cup LegacyNames

\* Iteration order of input_counts: the comprehension's keys, then the keys
\* dict.update appended.
KeyOrder == <<"a", "esc", "mouse_left", "mouse_right", "mouse_middle", "A">>

None == 0
NoCode == "none"
NoCursor == [conn |-> 0, closed |-> TRUE]
NoDiag == "none"
NoSummary == [L |-> -1, R |-> -1, M |-> -1, total |-> -1, last_updated |-> -1]
EmptyMap == [k \in {} |-> 0]
\* no periodic flush has completed since the last input event
NoTick == [done |-> FALSE, wrote |-> EmptyMap, rows |-> {}]

FlushThreads == {"sched", "key"}
Threads == {"sched", "key", "mouse"}

----------------------------------------------------------------------------
(* Raw events of the input source *)

KeyCode(c) == [type |-> "KeyCode", val |-> c]
Key(n) == [type |-> "Key", val |-> n]
KeyEsc == Key("esc")

\* 'a', 'A' (shifted), a KeyCode without a character, and escape
KeyEvents == {KeyCode("a"), KeyCode("A"), KeyCode("None"), KeyEsc}

Click(b, p) == [button |-> b, pressed |-> p]
ClickEvents == [button : {"left", "right", "middle", "x1"}, pressed : BOOLEAN]

\* press 'a' three times, left-click twice, press escape
Script == <<[kind |-> "key", key |-> KeyCode("a")],
            [kind |-> "key", key |-> KeyCode("a")],
            [kind |-> "key", key |-> KeyCode("a")],
            [kind |-> "click", click |-> Click("left", TRUE)],
            [kind |-> "click", click |-> Click("left", TRUE)],
            [kind |-> "key", key |-> KeyEsc]>>

----------------------------------------------------------------------------
(* Pure helpers *)

RECURSIVE SumOver(_, _)
SumOver(f, S) ==
    IF S = {} THEN 0
    ELSE LET k == CHOOSE x \in S : TRUE IN f[k] + SumOver(f, S \ {k})

\* key.startswith("mouse_")
StartsWithMouse(k) == k \in {"mouse_left", "mouse_right", "mouse_middle"}

\* dict.get(k, 0)
Get(d, k) == IF k \in DOMAIN d THEN d[k] ELSE 0

\* Metrics.__str__
Summarize(d, lu) ==
    [L |-> Get(d, "mouse_left"),
     R |-> Get(d, "mouse_right"),
     M |-> Get(d, "mouse_middle"),
     total |-> SumOver(d, {k \in DOMAIN d : ~StartsWithMouse(k)}),
     last_updated |-> lu]

\* a dict with the entries of data laid over those of d
Update(d, data) ==
    [k \in DOMAIN d \cup DOMAIN data |-> IF k \in DOMAIN data THEN data[k] ELSE d[k]]

\* input_counts.update(previous_data)
Merge(d, data) == Update(d, data)

\* list(input_counts.items()) keys, in iteration order
Items(d) == SelectSeq(KeyOrder, LAMBDA k : k \in DOMAIN d)

\* str(key) of a Key member, as prefix and name
Str(key) == <<"Key.", key.val>>
\* str(key).replace('Key.', '')
StripKeyPrefix(s) == SelectSeq(s, LAMBDA x : x # "Key.")[1]
\* key.char if hasattr(key, 'char') else str(key).replace('Key.', '')
KeyStr(key) == IF key.type = "KeyCode" THEN key.val ELSE StripKeyPrefix(Str(key))

\* faulty variant: the `if pressed` test is missing, releases count too
ButtonName_AnyTransition(click) ==
    IF click.button = "left" THEN "mouse_left"
    ELSE IF click.button = "right" THEN "mouse_right"
    ELSE IF click.button = "middle" THEN "mouse_middle"
    ELSE NoDiag

\* the counter the click handler's if/elif chain selects, or NoDiag for none
ButtonName(click) ==
    IF ~click.pressed THEN NoDiag
    ELSE IF click.button = "left" THEN "mouse_left"
    ELSE IF click.button = "right" THEN "mouse_right"
    ELSE IF click.button = "middle" THEN "mouse_middle"
    ELSE NoDiag

----------------------------------------------------------------------------
(* The durable store *)

Row(c, t) == [press_count |-> c, last_updated |-> t]

\* faulty variant: ON CONFLICT (input_name) DO UPDATE SET press_count = 0
InitializeInputs_Overwrite(st, t) ==
    [k \in DOMAIN st \cup ALL_INPUTS |->
        IF k \in ALL_INPUTS
        THEN Row(0, IF k \in DOMAIN st THEN st[k].last_updated ELSE t)
        ELSE st[k]]

\* INSERT ... VALUES (name, 0, NOW()) ON CONFLICT (input_name) DO NOTHING, for all names
InitializeInputs(st, t) ==
    [k \in DOMAIN st \cup ALL_INPUTS |-> IF k \in DOMAIN st THEN st[k] ELSE Row(0, t)]

\* faulty variant: the stored counts are not read, every loaded entry is 0
LoadData_Zeroed(st) == [k \in DOMAIN st |-> 0]

\* SELECT input_name, press_count FROM key_presses, as a dict
LoadData(st) == [k \in DOMAIN st |-> st[k].press_count]

\* faulty variant: the count and the timestamp parameters are passed in the wrong order
Upsert_Swapped(st, name, c, t) == Update(st, (name :> Row(t, c)))

\* INSERT ... ON CONFLICT (input_name) DO UPDATE SET press_count, last_updated
Upsert(st, name, c, t) == Update(st, (name :> Row(c, t)))

\* COMMIT of a transaction's statements
ApplyPending(st, p) == Update(st, p)

\* SELECT ... WHERE press_count > 0, as the set of rows
CurrentCounts(st) ==
    {<<k, st[k].press_count, st[k].last_updated>> : k \in {n \in DOMAIN st : st[n].press_count > 0}}

\* the (input, count) columns of printed report rows
CountRows(rows) == {<<r[1], r[2]>> : r \in rows}

\* Stores a run may start from: no table yet, or rows of an earlier run.
FreshStore == EmptyMap
LegacyStore == ("a" :> Row(10, 0)) @@ ("A" :> Row(4, 0))

----------------------------------------------------------------------------
(* Connection objects *)

NewConn == [open |-> TRUE, pending |-> EmptyMap]

\* objects still referenced by db.conn or db.cur; the rest are finalized
Collect(cs, c, u) == [i \in DOMAIN cs \cap {c, u.conn} |-> cs[i]]

FreshId(c, u) == CHOOSE i \in 1..3 : i \notin {c, u.conn}

CursorUsable(cs, u) == ~u.closed /\ u.conn \in DOMAIN cs /\ cs[u.conn].open

\* An I/O error on a connection leaves it broken: closed, its transaction lost.
Broken == [open |-> FALSE, pending |-> EmptyMap]
BreakConn(cs, c) == [i \in DOMAIN cs |-> IF i = c THEN Broken ELSE cs[i]]

----------------------------------------------------------------------------
(* Initial states: Metrics() and the comprehension of InputTracker.__init__ *)
(* / main have run.  The runs explored: input-tracker.py on a fresh        *)
(* database with free input; either implementation on a fresh database     *)
(* with the scripted input; metric-collector.py on a database holding rows *)
(* of an earlier run, with a single key press and left running longer.     *)

\* faulty variant: the comprehension runs over the keys only
InitialCounts_KeysOnly == [k \in SPECIAL_KEYS \cup REGULAR_KEYS |-> 0]

\* {key: 0 for key in ALL_INPUTS}
InitialCounts == [k \in ALL_INPUTS |-> 0]

Init ==
    /\ \/ /\ impl = "it"
          /\ tableExists = FALSE /\ store = FreshStore
          /\ env = [mode |-> "free", delivered |-> 0]
       \/ /\ impl \in {"mc", "it"}
          /\ tableExists = FALSE /\ store = FreshStore
          /\ env = [mode |-> "script", delivered |-> 0]
       \/ /\ impl = "mc"
          /\ tableExists = TRUE /\ store = LegacyStore
          /\ env = [mode |-> "single", delivered |-> 0]
    /\ store0 = store
    /\ procState = "running"
    /\ exitCode = NoCode
    /\ mainPc = "setup"
    /\ dbConn = None
    /\ dbCur = NoCursor
    /\ conns = EmptyMap
    /\ counts = InitialCounts
    /\ lastUpdated = None
    /\ now = 1
    /\ flushes = 0
    /\ pc = [t \in Threads |-> "off"]
    /\ idx = [t \in FlushThreads |-> 0]
    /\ diag = 0
    /\ summary = NoSummary
    /\ report = {}
    /\ merged = EmptyMap
    /\ hist = [k \in Names |-> 0]
    /\ wrote = [t \in FlushThreads |-> EmptyMap]
    /\ cand = [t \in FlushThreads |-> {}]
    /\ flog = [calm |-> FALSE, prev |-> NoTick]

----------------------------------------------------------------------------
(* Startup, on the main thread; no other thread exists yet.                *)

\* faulty variant: the error of a startup step is swallowed and startup goes on
Abort_Swallowed ==
    /\ procState' = procState
    /\ exitCode' = exitCode
    /\ mainPc' = "start"

\* an exception of a startup step leaves main(): traceback, exit status 1
Abort ==
    /\ procState' = "aborted"
    /\ exitCode' = "1"
    /\ mainPc' = "aborted"

\* connect() and the statements of one startup step, committed on a fresh connection
Connected == (1 :> NewConn)
ClosedConn == (1 :> [open |-> FALSE, pending |-> EmptyMap])

\* mc: DatabaseManager.setup_database (connect, _create_tables, _initialize_inputs,
\* disconnect); it: Database.setup_database (connect, CREATE TABLE, commit)
SetupDatabase ==
    /\ procState = "running" /\ mainPc = "setup"
    /\ \/ /\ Abort
          /\ UNCHANGED <<tableExists, store, dbConn, dbCur, conns>>
       \/ /\ tableExists' = TRUE
          /\ dbConn' = 1
          /\ IF impl = "mc"
             THEN /\ store' = InitializeInputs(store, now)
                  /\ conns' = ClosedConn
                  /\ dbCur' = [conn |-> 1, closed |-> TRUE]
                  /\ mainPc' = "load"
             ELSE /\ store' = store
                  /\ conns' = Connected
                  /\ dbCur' = [conn |-> 1, closed |-> FALSE]
                  /\ mainPc' = "init"
          /\ UNCHANGED <<procState, exitCode>>
    /\ UNCHANGED <<impl, store0, counts, lastUpdated, now, flushes, pc, idx, diag,
                   summary, report, env, merged, hist, wrote, cand, flog>>

\* it: db._initialize_inputs() on the connection setup_database left open
MainInitializeInputs ==
    /\ procState = "running" /\ mainPc = "init"
    /\ \/ /\ Abort
          /\ UNCHANGED store
       \/ /\ store' = InitializeInputs(store, now)
          /\ mainPc' = "load"
          /\ UNCHANGED <<procState, exitCode>>
    /\ UNCHANGED <<impl, store0, tableExists, dbConn, dbCur, conns, counts, lastUpdated, now,
                   flushes, pc, idx, diag, summary, report,
                   env, merged, hist, wrote, cand, flog>>

\* input_counts.update(db.load_previous_data()): connect, SELECT, disconnect, merge
LoadAndMerge ==
    /\ procState = "running" /\ mainPc = "load"
    /\ \/ /\ Abort
          /\ UNCHANGED <<dbConn, dbCur, conns, counts, merged>>
       \/ /\ dbConn' = 1
          /\ dbCur' = [conn |-> 1, closed |-> TRUE]
          /\ conns' = ClosedConn
          /\ counts' = Merge(counts, LoadData(store))
          /\ merged' = counts'
          /\ mainPc' = IF impl = "mc" THEN "print_prev" ELSE "start"
          /\ UNCHANGED <<procState, exitCode>>
    /\ UNCHANGED <<impl, store0, tableExists, store, lastUpdated, now, flushes, pc,
                   idx, diag, summary, report, env, hist, wrote, cand, flog>>

\* mc: print('Previous data:'); print(self.metrics)
PrintPrevious ==
    /\ procState = "running" /\ mainPc = "print_prev"
    /\ summary' = Summarize(counts, lastUpdated)
    /\ mainPc' = "start"
    /\ UNCHANGED <<impl, store0, procState, exitCode, tableExists, store, dbConn, dbCur, conns,
                   counts, lastUpdated, now, flushes, pc, idx, diag, report, env, merged, hist, wrote, cand, flog>>

\* start the daemon flush thread, then the mouse and keyboard listeners
Start ==
    /\ procState = "running" /\ mainPc = "start"
    /\ pc' = [sched |-> "sleep", key |-> "idle", mouse |-> "idle"]
    /\ mainPc' = "listening"
    /\ UNCHANGED <<impl, store0, procState, exitCode, tableExists, store, dbConn, dbCur, conns,
                   counts, lastUpdated, now, flushes, idx, diag, summary, report, env, merged, hist, wrote, cand, flog>>

----------------------------------------------------------------------------
(* The input source.  In free mode it delivers any events, at most         *)
(* MaxEvents of them; in script mode it delivers Script, each event after  *)
(* the one before; in single mode it delivers one key press and no click.  *)

Delivered == env.delivered

CanDeliver(kind, ev) ==
    IF env.mode = "free"
    THEN Delivered < MaxEvents
    ELSE IF env.mode = "single"
    THEN Delivered = 0 /\ kind = "key"
    ELSE /\ Delivered < Len(Script)
         /\ Script[Delivered + 1].kind = kind
         /\ IF kind = "key" THEN Script[Delivered + 1].key = ev
                            ELSE Script[Delivered + 1].click = ev

----------------------------------------------------------------------------
(* Listener callbacks.  Each runs on its listener's own thread.  A       *)
(* callback's `d[k] += 1` is the only write to d[k] by any thread after     *)
(* startup, and the flush threads only read d, so the callback up to its   *)
(* first database call is one step.                                        *)

\* faulty variant: the increment is dropped
Increment_Lost(d, k) == d

\* input_counts[k] += 1
Increment(d, k) == [d EXCEPT ![k] = @ + 1]

\* it: print(f'Unknown key: {key_str}'), one line; mc has no else branch
UnknownKeyLines(i) == IF i = "it" THEN 1 ELSE 0

\* an input event ends the calm the periodic ticks were in
Disturbed(l) == [l EXCEPT !.calm = FALSE, !.prev = NoTick]

\* tables seen since a flush began iterating that agree with what it has read
Agrees(m, w) == \A k \in DOMAIN w : k \in DOMAIN m /\ m[k] = w[k]
Observe(cs, w, table) ==
    [t \in FlushThreads |->
        IF pc[t] = "exec" /\ Agrees(table, w[t]) THEN cs[t] \cup {table} ELSE cs[t]]

\* _on_key_press / on_press: key_str, the count or the else branch; on escape the
\* two prints, leaving the callback at its call of save_metrics / save_data
KeyPress(k) ==
    /\ procState = "running" /\ pc["key"] = "idle"
    /\ CanDeliver("key", k)
    /\ env' = [env EXCEPT !.delivered = @ + 1]
    /\ LET ks == KeyStr(k) IN
       IF ks \in DOMAIN counts
       THEN /\ counts' = Increment(counts, ks)
            /\ hist' = [hist EXCEPT ![ks] = @ + 1]
            /\ UNCHANGED diag
       ELSE /\ diag' = diag + UnknownKeyLines(impl)
            /\ UNCHANGED <<counts, hist>>
    /\ cand' = Observe(cand, wrote, counts')
    /\ IF k = KeyEsc
       THEN /\ summary' = Summarize(counts', lastUpdated)
            /\ pc' = [pc EXCEPT !["key"] = "connect"]
       ELSE UNCHANGED <<summary, pc>>
    /\ flog' = Disturbed(flog)
    /\ UNCHANGED <<impl, store0, procState, exitCode, mainPc, tableExists, store, dbConn, dbCur,
                   conns, lastUpdated, now, flushes, idx, report, merged, wrote>>

\* os._exit(0)
Exit ==
    /\ procState = "running" /\ pc["key"] = "exit"
    /\ procState' = "exited"
    /\ exitCode' = "0"
    /\ UNCHANGED <<impl, store0, mainPc, tableExists, store, dbConn, dbCur, conns, counts,
                   lastUpdated, now, flushes, pc, idx, diag, summary, report, env,
                   merged, hist, wrote, cand, flog>>

\* _on_click / on_click
MouseClick(c) ==
    /\ procState = "running" /\ pc["mouse"] = "idle"
    /\ CanDeliver("click", c)
    /\ env' = [env EXCEPT !.delivered = @ + 1]
    /\ LET b == ButtonName(c) IN
       IF b # NoDiag
       THEN /\ counts' = Increment(counts, b)
            /\ hist' = [hist EXCEPT ![b] = @ + 1]
       ELSE UNCHANGED <<counts, hist>>
    /\ cand' = Observe(cand, wrote, counts')
    /\ flog' = Disturbed(flog)
    /\ UNCHANGED <<impl, store0, procState, exitCode, mainPc, tableExists, store, dbConn, dbCur,
                   conns, lastUpdated, now, flushes, pc, idx, diag, summary, report,
                   merged, wrote>>

----------------------------------------------------------------------------
(* save_metrics / save_data, run by the flush thread (sched) every tick    *)
(* and by the key listener (key) on escape.  Both use the one db object.   *)

\* Nothing catches an exception of save_metrics: in _start_save_data it ends the
\* thread's while loop, in the key callback it ends the listener before os._exit.
AfterRaise(t) == IF t = "sched" THEN "crashed" ELSE "dead"

\* where the caller continues after save_metrics returns
AfterSave(t) == IF t = "sched" THEN "sleep" ELSE "exit"

Raise(t) ==
    /\ pc' = [pc EXCEPT ![t] = AfterRaise(t)]
    /\ idx' = [idx EXCEPT ![t] = 0]
    /\ wrote' = [wrote EXCEPT ![t] = EmptyMap]
    /\ cand' = [cand EXCEPT ![t] = {}]

\* time.sleep(self.save_interval): the clock advances by one tick of the
\* save interval; it is read in whole ticks
\* periodic ticks explored: one more when the input is a single key press
MaxTicks == IF env.mode = "single" THEN MaxFlushes + 1 ELSE MaxFlushes

Sleep ==
    /\ procState = "running" /\ pc["sched"] = "sleep"
    /\ flushes < MaxTicks
    /\ flushes' = flushes + 1
    /\ now' = now + 1
    /\ pc' = [pc EXCEPT !["sched"] = "connect"]
    /\ flog' = [flog EXCEPT !.calm = TRUE]
    /\ UNCHANGED <<impl, store0, procState, exitCode, mainPc, tableExists, store, dbConn, dbCur,
                   conns, counts, lastUpdated, idx, diag,
                   summary, report, env, merged, hist, wrote, cand>>

\* connect(): self.conn = psycopg2.connect(...)
FlushConnect(t) ==
    /\ procState = "running" /\ pc[t] = "connect"
    /\ \E ok \in BOOLEAN :
       IF ok
       THEN /\ dbConn' = FreshId(dbConn, dbCur)
            /\ conns' = Collect(conns @@ (dbConn' :> NewConn), dbConn', dbCur)
            /\ pc' = [pc EXCEPT ![t] = "cursor"]
            /\ UNCHANGED <<idx, wrote, cand>>
       ELSE /\ Raise(t)
            /\ UNCHANGED <<dbConn, conns>>
    /\ UNCHANGED <<impl, store0, procState, exitCode, mainPc, tableExists, store, dbCur, counts,
                   lastUpdated, now, flushes, diag, summary, report, env, merged, hist, flog>>

\* connect(): self.cur = self.conn.cursor()
FlushCursor(t) ==
    /\ procState = "running" /\ pc[t] = "cursor"
    /\ IF conns[dbConn].open
       THEN /\ dbCur' = [conn |-> dbConn, closed |-> FALSE]
            /\ conns' = Collect(conns, dbConn, dbCur')
            /\ pc' = [pc EXCEPT ![t] = "stamp"]
            /\ UNCHANGED <<idx, wrote, cand>>
       ELSE /\ Raise(t)
            /\ UNCHANGED <<dbCur, conns>>
    /\ UNCHANGED <<impl, store0, procState, exitCode, mainPc, tableExists, store, dbConn, counts,
                   lastUpdated, now, flushes, diag, summary, report, env, merged, hist, flog>>

\* faulty variant: the flush takes the counts and starts the table again from 0
FlushStamp_Resets(t) ==
    /\ procState = "running" /\ pc[t] = "stamp"
    /\ lastUpdated' = now
    /\ counts' = [k \in DOMAIN counts |-> 0]
    /\ idx' = [idx EXCEPT ![t] = 1]
    /\ wrote' = [wrote EXCEPT ![t] = EmptyMap]
    /\ cand' = [cand EXCEPT ![t] = {counts'}]
    /\ pc' = [pc EXCEPT ![t] = "exec"]
    /\ UNCHANGED <<impl, store0, procState, exitCode, mainPc, tableExists, store, dbConn, dbCur,
                   conns, now, flushes, diag, summary, report, env, merged, hist, flog>>

\* metrics.last_updated = datetime.now().strftime("%Y-%m-%d %H:%M:%S"); the for
\* loop over input_counts.items() begins
FlushStamp(t) ==
    /\ procState = "running" /\ pc[t] = "stamp"
    /\ lastUpdated' = now
    /\ idx' = [idx EXCEPT ![t] = 1]
    /\ wrote' = [wrote EXCEPT ![t] = EmptyMap]
    /\ cand' = [cand EXCEPT ![t] = {counts}]
    /\ pc' = [pc EXCEPT ![t] = "exec"]
    /\ UNCHANGED <<impl, store0, procState, exitCode, mainPc, tableExists, store, dbConn, dbCur,
                   conns, counts, now, flushes, diag, summary, report, env, merged, hist, flog>>

\* one iteration of the loop: next item of input_counts, self.cur.execute(upsert)
FlushExec(t) ==
    /\ procState = "running" /\ pc[t] = "exec"
    /\ LET name == Items(counts)[idx[t]]
           c == counts[name]
       IN \E ok \in BOOLEAN :
          IF ok /\ CursorUsable(conns, dbCur)
          THEN /\ conns' = [conns EXCEPT ![dbCur.conn].pending =
                                Upsert(@, name, c, lastUpdated)]
               /\ wrote' = [wrote EXCEPT ![t] = @ @@ (name :> c)]
               /\ cand' = [cand EXCEPT ![t] = {m \in @ : m[name] = c}]
               /\ idx' = [idx EXCEPT ![t] = @ + 1]
               /\ pc' = [pc EXCEPT ![t] =
                            IF idx[t] = Len(Items(counts)) THEN "commit" ELSE "exec"]
          ELSE /\ Raise(t)
               /\ conns' = IF ok THEN conns ELSE BreakConn(conns, dbCur.conn)
    /\ UNCHANGED <<impl, store0, procState, exitCode, mainPc, tableExists, store, dbConn, dbCur,
                   counts, lastUpdated, now, flushes, diag,
                   summary, report, env, merged, hist, flog>>

\* self.conn.commit()
FlushCommit(t) ==
    /\ procState = "running" /\ pc[t] = "commit"
    /\ \E ok \in BOOLEAN :
       IF ok /\ conns[dbConn].open
       THEN /\ store' = ApplyPending(store, conns[dbConn].pending)
            /\ conns' = [conns EXCEPT ![dbConn].pending = EmptyMap]
            /\ pc' = [pc EXCEPT ![t] = "finish"]
            /\ UNCHANGED <<idx, wrote, cand>>
       ELSE /\ Raise(t)
            /\ conns' = IF ok THEN conns ELSE BreakConn(conns, dbConn)
            /\ UNCHANGED store
    /\ UNCHANGED <<impl, store0, procState, exitCode, mainPc, tableExists, dbConn, dbCur, counts,
                   lastUpdated, now, flushes, diag, summary,
                   report, env, merged, hist, flog>>

\* self._print_current_counts() on self.cur, then self.disconnect(), then return
FlushFinish(t) ==
    /\ procState = "running" /\ pc[t] = "finish"
    /\ \E ok \in BOOLEAN :
       IF ok /\ CursorUsable(conns, dbCur)
       THEN /\ report' = CurrentCounts(ApplyPending(store, conns[dbCur.conn].pending))
            /\ dbCur' = [dbCur EXCEPT !.closed = TRUE]
            /\ conns' = [conns EXCEPT ![dbConn] = [open |-> FALSE, pending |-> EmptyMap]]
            /\ pc' = [pc EXCEPT ![t] = AfterSave(t)]
            /\ idx' = [idx EXCEPT ![t] = 0]
            /\ wrote' = [wrote EXCEPT ![t] = EmptyMap]
            /\ cand' = [cand EXCEPT ![t] = {}]
            /\ flog' = IF t = "sched"
                       THEN [flog EXCEPT !.prev = IF flog.calm
                                                   THEN [done |-> TRUE, wrote |-> wrote[t],
                                                         rows |-> CountRows(report')]
                                                   ELSE NoTick]
                       ELSE flog
       ELSE /\ Raise(t)
            /\ conns' = IF ok THEN conns ELSE BreakConn(conns, dbCur.conn)
            /\ UNCHANGED <<report, dbCur, flog>>
    /\ UNCHANGED <<impl, store0, procState, exitCode, mainPc, tableExists, store, dbConn, counts,
                   lastUpdated, now, flushes, diag, summary, env,
                   merged, hist>>

----------------------------------------------------------------------------

Next ==
    \/ SetupDatabase
    \/ MainInitializeInputs
    \/ LoadAndMerge
    \/ PrintPrevious
    \/ Start
    \/ \E k \in KeyEvents : KeyPress(k)
    \/ Exit
    \/ \E c \in ClickEvents : MouseClick(c)
    \/ Sleep
    \/ \E t \in FlushThreads : FlushConnect(t)
    \/ \E t \in FlushThreads : FlushCursor(t)
    \/ \E t \in FlushThreads : FlushStamp(t)
    \/ \E t \in FlushThreads : FlushExec(t)
    \/ \E t \in FlushThreads : FlushCommit(t)
    \/ \E t \in FlushThreads : FlushFinish(t)

Spec == Init /\ [][Next]_vars

----------------------------------------------------------------------------
(* Sequential composition of the gateway operations                       *)

RECURSIVE ExecuteAll(_, _, _, _)
\* the for loop of save_metrics with nothing else running: one upsert per item
ExecuteAll(p, d, names, t) ==
    IF names = <<>> THEN p
    ELSE ExecuteAll(Upsert(p, Head(names), d[Head(names)], t), d, Tail(names), t)

\* save_metrics(metrics) run alone to its commit on the rows st
SaveMetrics(st, d, t) == ApplyPending(st, ExecuteAll(EmptyMap, d, Items(d), t))

----------------------------------------------------------------------------
(* Claims                                                                  *)

Listening == mainPc = "listening"

\* C1: once the listeners run, every identifier's in-memory count equals its
\* count after the startup merge plus the number of events received for it,
\* whatever the flush threads are doing.
C1_NoLostIncrement ==
    Listening =>
        /\ DOMAIN counts = DOMAIN merged
        /\ \A k \in DOMAIN counts : counts[k] = merged[k] + hist[k]

\* C1 witness: 'a' has been pressed three times while a periodic flush is part-way
\* through its loop.
C1_Witness ==
    /\ Listening /\ hist["a"] = 3 /\ counts["a"] = merged["a"] + 3
    /\ pc["sched"] = "exec" /\ idx["sched"] > 1

\* C2 (as claimed): when a flush has executed all its statements, the values it
\* passed to them are the counter table of one single moment of its iteration.
C2_SnapshotIsConsistent ==
    \A t \in FlushThreads : pc[t] \in {"commit", "finish"} => wrote[t] \in cand[t]

\* C3 (as claimed): after 'a' x3, left click x2 and escape from all-zero counts the
\* summary shows 3 key presses and 2/0/0 clicks, and at exit the store holds the
\* same values.
ScriptDone == env.mode = "script" /\ env.delivered = Len(Script)
C3_ScenarioSummary ==
    ScriptDone =>
        /\ summary.total = 3
        /\ summary.L = 2 /\ summary.R = 0 /\ summary.M = 0
        /\ procState = "exited" =>
              /\ store["a"].press_count = 3
              /\ store["mouse_left"].press_count = 2
              /\ store["mouse_right"].press_count = 0
              /\ store["mouse_middle"].press_count = 0

\* C4 (as claimed): while the process runs, the flush thread is never ended by a
\* failed flush.
C4_SchedulerSurvivesFailure ==
    procState = "running" => pc["sched"] # "crashed"

\* C5 (as claimed): the counter table never holds an identifier outside the
\* vocabulary.
C5_OnlyVocabularyInTable ==
    DOMAIN counts \subseteq ALL_INPUTS

\* C6: the step that runs _initialize_inputs keeps every existing row as it was
\* and adds only count-0 rows for the missing vocabulary identifiers; and on any
\* store the run reaches, running it again, once or twice, changes no existing row.
RunsInitializeInputs == mainPc \in {"setup", "init"} /\ mainPc' = "load"
RowsKept(before, after) ==
    /\ DOMAIN after = DOMAIN before \cup ALL_INPUTS
    /\ \A k \in DOMAIN before : after[k] = before[k]
    /\ \A k \in DOMAIN after \ DOMAIN before : after[k].press_count = 0
C6_InitializeIdempotent ==
    [][/\ RunsInitializeInputs => RowsKept(store, store')
       /\ LET once == InitializeInputs(store', now')
              twice == InitializeInputs(once, now' + 1)
          IN RowsKept(store', once) /\ twice = once]_vars

\* C6 witness: vocabulary rows were initialized on a store that held a non-zero
\* count and lacked other rows.
C6_Witness ==
    /\ mainPc = "load" /\ store0 = LegacyStore
    /\ store["a"].press_count = 10 /\ store["esc"].press_count = 0

\* C7: flushing the counter table to an empty store and loading it back gives the
\* counter table again.
C7_RoundTrip ==
    Listening => LoadData(SaveMetrics(EmptyMap, counts, now)) = counts

\* C7 witness: a table holding a resumed and incremented count and a legacy
\* identifier.
C7_Witness ==
    /\ Listening /\ "A" \in DOMAIN counts /\ counts["A"] = 4
    /\ counts["a"] = 11

\* C8 (as claimed): counts resume from the store: the in-memory count of a
\* vocabulary identifier is its durable count at startup plus the events received
\* for it, and a flush that read the table as it now is and committed without
\* error has persisted exactly that count.
StartCount(k) == IF k \in DOMAIN store0 THEN store0[k].press_count ELSE 0
C8_ResumeFromStore ==
    Listening =>
        /\ \A k \in ALL_INPUTS : counts[k] = StartCount(k) + hist[k]
        /\ \A t \in FlushThreads :
              (pc[t] = "finish" /\ wrote[t] = counts) =>
                  \A k \in ALL_INPUTS : store[k].press_count = StartCount(k) + hist[k]

\* C9 (as claimed): a key press whose name is not in the counter table changes no
\* count, prints one unknown-key diagnostic and leaves the listener running.
C9_UnknownKeyReported ==
    [][\A k \in KeyEvents :
          (KeyPress(k) /\ KeyStr(k) \notin DOMAIN counts) =>
              /\ counts' = counts
              /\ diag' = diag + 1
              /\ pc'["key"] = "idle" /\ procState' = "running"]_vars

\* C10: a mouse event adds 1 to the counter of its button when it is a press of the
\* left, right or middle button, and otherwise changes nothing in the table.
TrackedButton == [left |-> "mouse_left", right |-> "mouse_right", middle |-> "mouse_middle"]
C10_MouseFrame ==
    [][\A c \in ClickEvents :
          MouseClick(c) =>
              IF c.pressed /\ c.button \in DOMAIN TrackedButton
              THEN counts' = [counts EXCEPT ![TrackedButton[c.button]] = @ + 1]
              ELSE counts' = counts]_vars

\* C10 witness: a right-button press has been counted and nothing else has.
C10_Witness ==
    /\ Listening /\ hist["mouse_right"] = 1
    /\ counts = [merged EXCEPT !["mouse_right"] = @ + 1]

\* C11 (as claimed): when a periodic flush completes and the one before it
\* completed too, with no input event since that one began, both passed the same
\* counts to their statements and both printed the same report rows and counts.
TickCompletes == pc["sched"] = "finish" /\ pc'["sched"] = "sleep"
C11_FlushIdempotent ==
    [][(TickCompletes /\ flog.prev.done) =>
          /\ wrote["sched"] = flog.prev.wrote
          /\ flog'.prev.rows = flog.prev.rows]_vars

\* C12: from construction on, every vocabulary identifier has an entry in the
\* counter table, every entry is a non-negative integer, and the entries the
\* startup merge left are all still there.
C12_VocabularyAlwaysCounted ==
    /\ \A k \in ALL_INPUTS : k \in DOMAIN counts
    /\ \A k \in DOMAIN counts : counts[k] \in Nat
    /\ DOMAIN merged \subseteq DOMAIN counts

\* C12 witness: after a merge that added an identifier, a key press and a
\* completed periodic flush.
C12_Witness ==
    /\ Listening /\ DOMAIN counts = Names
    /\ hist["A"] = 1 /\ counts["A"] = 5
    /\ flushes = 1 /\ pc["sched"] = "sleep" /\ report # {}

\* C13 (as claimed): when the shutdown flush has failed, the session summary has
\* been printed and the process has terminated with a non-zero status; a process
\* that terminated with status 0 did so after its shutdown flush returned.
C13_FailedFinalFlushStatus ==
    /\ pc["key"] = "dead" =>
           /\ summary # NoSummary
           /\ procState = "exited"
           /\ exitCode \notin {NoCode, "0"}
    /\ (procState = "exited" /\ exitCode = "0") => pc["key"] = "exit"

\* C14: startup is ordered and fail-stop.  The vocabulary rows are initialized
\* only on an existing table, the merge loads the initialized rows, and a thread
\* runs only after all three; after a failed startup step no thread has ever
\* run, no event was taken and no flush has touched the store.
StartupStore == InitializeInputs(store0, 1)
C14_StartupOrdered ==
    /\ mainPc \in {"init", "load", "print_prev", "start", "listening"} => tableExists
    /\ mainPc \in {"load", "print_prev", "start", "listening"} =>
           \A k \in ALL_INPUTS : k \in DOMAIN store
    /\ mainPc \in {"print_prev", "start", "listening"} =>
           merged = Merge(InitialCounts, LoadData(StartupStore))
    /\ (\E t \in Threads : pc[t] # "off") => mainPc = "listening"
    /\ procState = "aborted" =>
           /\ \A t \in Threads : pc[t] = "off"
           /\ flushes = 0 /\ Delivered = 0
           /\ lastUpdated = None /\ report = {}
           /\ store \in {store0, StartupStore}

\* C14 witness: the load failed after the schema and the vocabulary rows were
\* set up; nothing was started.
C14_Witness ==
    /\ procState = "aborted" /\ exitCode = "1"
    /\ tableExists /\ store = StartupStore /\ store # store0
    /\ merged = EmptyMap /\ pc["sched"] = "off" /\ pc["key"] = "off"

\* C15 (as claimed): on escape the final flush completes first, then the session
\* summary is printed, then the process terminates: while the shutdown flush is
\* under way the last printed summary is still the one of startup, and a
\* terminated process has completed the flush and printed the session summary.
StartupSummary == IF impl = "mc" THEN Summarize(merged, None) ELSE NoSummary
InShutdownFlush == pc["key"] \in {"connect", "cursor", "stamp", "exec", "commit", "finish"}
C15_ShutdownOrder ==
    /\ InShutdownFlush => summary = StartupSummary
    /\ procState = "exited" => (pc["key"] = "exit" /\ summary # StartupSummary)

\* C16 (as claimed): the in-memory last_updated is unset, or it is a timestamp
\* that a committed flush has written to the rows of the store; so a flush that
\* fails before its commit leaves it as it was.
C16_LastUpdatedIsCommitted ==
    \/ lastUpdated = None
    \/ \E k \in DOMAIN store : store[k].last_updated = lastUpdated

\* C17 (as claimed): when a flush has committed, every entry it flushed has its
\* durable row at the flushed count, and all those rows carry one and the same
\* last_updated.
Committed(t) ==
    /\ \A k \in DOMAIN wrote[t] : store[k].press_count = wrote[t][k]
    /\ \A j, k \in DOMAIN wrote[t] : store[j].last_updated = store[k].last_updated
C17_AllOrNothing ==
    \A t \in FlushThreads : pc[t] = "finish" => Committed(t)

\* C18: no step of a flush, whether it goes on, returns or raises, changes the
\* in-memory counter table.
FlushPositions == {"connect", "cursor", "stamp", "exec", "commit", "finish"}
FlushStep(t) == pc[t] \in FlushPositions /\ (pc'[t] # pc[t] \/ idx'[t] # idx[t])
C18_FlushKeepsCounts ==
    [][(\E t \in FlushThreads : FlushStep(t)) => counts' = counts]_vars

\* C18 witness: a click was counted, then the periodic flush failed; the count is
\* still in the table.
C18_Witness ==
    /\ pc["sched"] = "crashed" /\ lastUpdated # None
    /\ hist["mouse_left"] = 1 /\ counts["mouse_left"] = merged["mouse_left"] + 1

\* C19 (as claimed): a flush never rebinds or closes db.conn or db.cur while the
\* other flush is between its connect and its return, so each flush runs all its
\* statements and its commit on the connection and cursor it opened itself.
UsingConnection(u) == pc[u] \in {"cursor", "stamp", "exec", "commit", "finish"}
C19_FlushesDoNotInterfere ==
    [][\A t \in FlushThreads :
          (FlushStep(t) /\ (dbConn' # dbConn \/ dbCur' # dbCur)) =>
              \A u \in FlushThreads \ {t} : ~UsingConnection(u)]_vars

====
